---- MODULE Spec2Model ----
(***************************************************************************)
(* A model of the cross-chain bridge relay of src/script.py:               *)
(*   - the fixed-layout event decoder                                      *)
(*     (BridgeContractHandler.parse_lock_event_from_log),                  *)
(*   - the nonce-deduplicating submission queue and its consumer           *)
(*     (DestinationTransactionProcessor),                                  *)
(*   - the confirmation-aware poll loop with its durable cursor and its    *)
(*     shutdown sequence (EventListener).                                  *)
(*                                                                         *)
(* Text is a sequence of one-character strings.  A Python int is the       *)
(* record [neg, mag]: its sign and its magnitude as base-16 digits, most   *)
(* significant first, without leading zeros (<<>> is 0), so values up to   *)
(* and beyond 2^256 are exact.                                             *)
(***************************************************************************)
EXTENDS Integers, Sequences, FiniteSets, TLC

(***************************************************************************)
(* Program constants (CONFIG and the decoder's layout).                    *)
(***************************************************************************)
start_block == 1000
confirmation_blocks == 6
FieldWidth == 64
FieldCount == 5
AddressWidth == 40

(***************************************************************************)
(* Bounds of the model.                                                    *)
(***************************************************************************)
MaxEdits == 2
MaxHeadAdvance == 8
MaxNonce == 2
MaxBatch == 1
MaxMalformed == 1
MaxRuns == 2
MaxSmallInt == 2

None == [tag |-> "None"]

(***************************************************************************)
(* Text helpers.                                                           *)
(***************************************************************************)
HexLower == <<"0","1","2","3","4","5","6","7","8","9","a","b","c","d","e","f">>
HexUpper == <<"0","1","2","3","4","5","6","7","8","9","A","B","C","D","E","F">>

IsHexChar(c) == \E i \in 1..16 : HexLower[i] = c \/ HexUpper[i] = c

\* The digit value int() gives a hexadecimal digit character.
HexVal(c) == (CHOOSE i \in 1..16 : HexLower[i] = c \/ HexUpper[i] = c) - 1

\* Python's s[a:b] with 0 <= a <= b, as the 1-based elements a+1 .. b.
Slice(s, a, b) ==
  LET hi == IF b < Len(s) THEN b ELSE Len(s)
  IN  IF a >= hi THEN <<>> ELSE SubSeq(s, a + 1, hi)

\* Python's s[-n:].
LastN(s, n) == IF Len(s) <= n THEN s ELSE Slice(s, Len(s) - n, Len(s))

\* A function on 1..n as a sequence.
AsSeq(f, n) == IF n = 0 THEN <<>> ELSE SubSeq(f, 1, n)

Zeros(n) == IF n <= 0 THEN <<>> ELSE AsSeq([i \in 1..n |-> "0"], n)

\* str.replace('0x', ''): one left-to-right pass that drops every occurrence
\* of "0x" and does not look again at what the removal joins.
\* (Two occurrences of "0x" cannot overlap, so what is dropped is every "0"
\* that an "x" follows, and that "x".)
Replace0x(s) ==
  LET n       == Len(s)
      Kept(i) == /\ ~(i < n /\ s[i] = "0" /\ s[i + 1] = "x")
                 /\ ~(i > 1 /\ s[i - 1] = "0" /\ s[i] = "x")
      kept    == SelectSeq(AsSeq([i \in 1..n |-> i], n), Kept)
  IN  AsSeq([k \in 1..Len(kept) |-> s[kept[k]]], Len(kept))

\* (a fill that pads on the right)
ZFill_Right(s, width) ==
  IF Len(s) >= width THEN s ELSE s \o Zeros(width - Len(s))

\* str.zfill(width): zeros on the left, after a leading sign.
ZFill(s, width) ==
  IF Len(s) >= width THEN s
  ELSE IF Len(s) > 0 /\ s[1] \in {"+", "-"}
       THEN <<s[1]>> \o Zeros(width - Len(s)) \o Slice(s, 1, Len(s))
       ELSE Zeros(width - Len(s)) \o s

(***************************************************************************)
(* Python ints.                                                            *)
(***************************************************************************)
ValueError == [tag |-> "ValueError"]

\* The digits without their leading zeros.
StripZeros(d) ==
  LET nz == {i \in 1..Len(d) : d[i] # 0}
  IN  IF nz = {} THEN <<>>
      ELSE SubSeq(d, CHOOSE i \in nz : \A j \in nz : i <= j, Len(d))

HexChars(m) == AsSeq([i \in 1..Len(m) |-> HexLower[m[i] + 1]], Len(m))

HexVals(s) == AsSeq([i \in 1..Len(s) |-> HexVal(s[i])], Len(s))

PyInt(neg, digits) ==
  LET m == StripZeros(digits)
  IN  [neg |-> neg /\ Len(m) > 0, mag |-> m]

\* int(s, 16) for a str s: optional surrounding whitespace, an optional sign,
\* an optional 0x/0X prefix (one underscore may follow it), then hexadecimal
\* digits separated by single underscores; anything else is a ValueError.

\* The digits: at least one, no underscore first, last or doubled.
IntDigits(neg, w) ==
  IF /\ Len(w) > 0
     /\ \A i \in 1..Len(w) : IsHexChar(w[i]) \/ w[i] = "_"
     /\ w[1] # "_"
     /\ w[Len(w)] # "_"
     /\ \A i \in 1..(Len(w) - 1) : ~(w[i] = "_" /\ w[i + 1] = "_")
  THEN PyInt(neg, HexVals(SelectSeq(w, LAMBDA c : c # "_")))
  ELSE ValueError

\* After a 0x/0X prefix one underscore is skipped.
IntAfterPrefix(neg, v) ==
  IF Len(v) > 0 /\ v[1] = "_" THEN IntDigits(neg, Slice(v, 1, Len(v)))
  ELSE IntDigits(neg, v)

IntPrefixed(neg, u) ==
  IF Len(u) >= 2 /\ u[1] = "0" /\ u[2] \in {"x", "X"}
  THEN IntAfterPrefix(neg, Slice(u, 2, Len(u)))
  ELSE IntDigits(neg, u)

IntSigned(t) ==
  IF Len(t) > 0 /\ t[1] \in {"+", "-"}
  THEN IntPrefixed(t[1] = "-", Slice(t, 1, Len(t)))
  ELSE IntPrefixed(FALSE, t)

\* str.strip() of the whitespace around the literal.
StripSpaces(s) ==
  LET inner == {i \in 1..Len(s) : s[i] # " "}
  IN  IF inner = {} THEN <<>>
      ELSE SubSeq(s, CHOOSE i \in inner : \A j \in inner : i <= j,
                     CHOOSE i \in inner : \A j \in inner : i >= j)

PyIntBase16(s) == IntSigned(StripSpaces(s))

\* hex(v): "0x" and the lower-case digits, "-0x..." for a negative value.
Hex(v) ==
  LET ds == IF Len(v.mag) = 0 THEN <<"0">> ELSE HexChars(v.mag)
  IN  (IF v.neg THEN <<"-">> ELSE <<>>) \o <<"0", "x">> \o ds

(***************************************************************************)
(* BridgeContractHandler.parse_lock_event_from_log                         *)
(***************************************************************************)
ExpectedLen == FieldWidth * FieldCount

parse_lock_event_from_log(log) ==
  LET data == Replace0x(log.data)
  IN  IF Len(data) # ExpectedLen THEN None
      ELSE
        LET destination_chain_id == PyIntBase16(Slice(data, 64, 128))
            amount               == PyIntBase16(Slice(data, 192, 256))
            nonce                == PyIntBase16(Slice(data, 256, 320))
        IN  IF ValueError \in {destination_chain_id, amount, nonce} THEN None
            ELSE [ source_token         |-> <<"0", "x">> \o LastN(Slice(data, 0, 64), AddressWidth),
                   destination_chain_id |-> destination_chain_id,
                   recipient_address    |-> <<"0", "x">> \o LastN(Slice(data, 128, 192), AddressWidth),
                   amount               |-> amount,
                   nonce                |-> nonce,
                   block_number         |-> log.blockNumber ]

(***************************************************************************)
(* MockBlockchainNodeConnector._generate_mock_lock_event_log, with the     *)
(* amount and the nonce it draws at random as parameters.                  *)
(***************************************************************************)
WETH == <<"0","x","C","0","2","a","a","A","3","9","b","2","2","3","F","E","8","D","0","A","0","e","5","C","4","F","2","7","e","A","D","9","0","8","3","C","7","5","6","C","c","2">>
Recipient == <<"0","x","7","0","9","9","7","9","7","0","C","5","1","8","1","2","d","c","3","A","0","1","0","C","7","d","0","1","b","5","0","e","0","d","1","7","d","c","7","9","C","8">>
\* 80001 = 0x13881
Mumbai == [neg |-> FALSE, mag |-> <<1, 3, 8, 8, 1>>]

\* The encoding of lines 116-129 for any five field values.
EncodeLockEvent(e) ==
  LET data_payload ==
        ZFill(Replace0x(e.source_token), 64)
        \o ZFill(Slice(Hex(e.destination_chain_id), 2, Len(Hex(e.destination_chain_id))), 64)
        \o ZFill(Replace0x(e.recipient_address), 64)
        \o ZFill(Slice(Hex(e.amount), 2, Len(Hex(e.amount))), 64)
        \o ZFill(Slice(Hex(e.nonce), 2, Len(Hex(e.nonce))), 64)
  IN  [ data |-> <<"0", "x">> \o data_payload, blockNumber |-> e.block_number ]

generate_mock_lock_event_log(block_number, amount, nonce) ==
  EncodeLockEvent([ source_token         |-> WETH,
                    destination_chain_id |-> Mumbai,
                    recipient_address    |-> Recipient,
                    amount               |-> amount,
                    nonce                |-> nonce,
                    block_number         |-> block_number ])


(***************************************************************************)
(* State.                                                                  *)
(***************************************************************************)
VARIABLES
  \* the relay process
  run,                     \* which process this is (1 = the first start)
  phase,                   \* INIT, RUNNING, DRAINING, STOPPED or CRASHED
  pc,                      \* where EventListener.run is
  last_processed_block,    \* self.state['last_processed_block']
  disk,                    \* the state file: absent, corrupt or holding a cursor
  current_block,           \* MockBlockchainNodeConnector._current_block
  latest_block, from_block, to_block,   \* locals of one poll iteration (0: not set)
  logs,                    \* the logs of the batch still to be handled
  pending_transactions,    \* DestinationTransactionProcessor._pending_transactions
  processed_nonces,        \* DestinationTransactionProcessor._processed_nonces
  cpc,                     \* where process_queue is
  event_to_process,        \* the consumer's item, or None
  \* history
  accepted,                \* events put on the queue by this process, in order
  dequeued,                \* events the consumer got from the queue, in order
  decoded,                 \* events any process has decoded
  submitted,               \* events any process has sent a transaction for
  maxPersisted,            \* the largest cursor ever written to the state file
  failCursor,              \* the cursor when the last iteration failed, or -1
  drainSaveCalls,          \* _save_state calls since the shutdown signal
  drainPersists,           \* of these, the ones that wrote the file
  loaded,                  \* the cursor _load_state returned (-1: not loaded)
  ranges,                  \* the ranges this process has handled, in order
  batch,                   \* the batch get_logs returned, while it is handled
  offered,                 \* events given to submit_mint_transaction from it
  last_done,               \* the consumer's last finished item and how it ended
  cancelled_at,            \* the await the loop was in when it was cancelled
  \* the decoder, exercised on its own
  d_log,                   \* the raw log
  d_result,                \* Pending, None or the ParsedLockEvent
  d_edits,                 \* edits applied to the raw log
  d_event                  \* the event the raw log encodes, or None

relayVars == << run, phase, pc, last_processed_block, disk, current_block,
                latest_block, from_block, to_block, logs, pending_transactions,
                processed_nonces, cpc, event_to_process, accepted, dequeued,
                decoded, submitted, maxPersisted, failCursor, drainSaveCalls,
                drainPersists, loaded, cancelled_at, ranges, batch, offered,
                last_done >>
decoderVars == << d_log, d_result, d_edits, d_event >>
vars == << relayVars, decoderVars >>

(***************************************************************************)
(* Raw logs of the relay model.  A log is named by what generated it: a    *)
(* Lock event log as the mock connector builds it, a log whose data is too  *)
(* short, or a log of the right length whose nonce field ends with a       *)
(* character that is no hexadecimal digit; its text is RawLogOf(l), and    *)
(* the relay decodes that text.                                            *)
(***************************************************************************)
Nonces == 1..MaxNonce
\* The chain head stops growing here.
MaxHead == start_block + MaxHeadAdvance

RECURSIVE NatDigits(_)
NatDigits(n) == IF n = 0 THEN <<>> ELSE NatDigits(n \div 16) \o <<n % 16>>

NatToPy(n) == [neg |-> FALSE, mag |-> NatDigits(n)]

RECURSIVE MagToNat(_)
MagToNat(m) ==
  IF Len(m) = 0 THEN 0 ELSE 16 * MagToNat(SubSeq(m, 1, Len(m) - 1)) + m[Len(m)]

\* 100 * 10^18 = 0x56bc75e2d63100000
Amount100 == [neg |-> FALSE, mag |-> <<5,6,11,12,7,5,14,2,13,6,3,1,0,0,0,0,0>>]

LogNames(lo, hi) ==
  [kind : {"lock"}, nonce : Nonces, blockNumber : lo..hi]
  \cup [kind : {"short", "nonhex"}, nonce : {0}, blockNumber : lo..hi]

NonHexLog(block_number) ==
  LET good == generate_mock_lock_event_log(block_number, Amount100, NatToPy(1))
  IN  [good EXCEPT !.data = SubSeq(good.data, 1, Len(good.data) - 1) \o <<"g">>]

RawLogOf(l) ==
  CASE l.kind = "lock" ->
         generate_mock_lock_event_log(l.blockNumber, Amount100, NatToPy(l.nonce))
    [] l.kind = "short" ->
         [data |-> <<"0", "x">> \o Zeros(63), blockNumber |-> l.blockNumber]
    [] l.kind = "nonhex" -> NonHexLog(l.blockNumber)

\* The fields of a ParsedLockEvent the relay reads or reports.
RelayEvent(p) ==
  IF p = None THEN None
  ELSE [nonce |-> MagToNat(p.nonce.mag), block_number |-> p.block_number]

\* The decoder's result for every log of the model, worked out once (@@ makes
\* the function a table).
ParsedLogs ==
  [l \in LogNames(start_block + 1, MaxHead - confirmation_blocks) |->
     RelayEvent(parse_lock_event_from_log(RawLogOf(l)))] @@ <<>>

\* self.bridge_contract.parse_lock_event_from_log(log) in the poll loop
ParseInLoop(l) == ParsedLogs[l]


(***************************************************************************)
(* The state file.                                                         *)
(***************************************************************************)
Absent == [kind |-> "absent"]
Corrupt == [kind |-> "corrupt"]
Stored(n) == [kind |-> "json", last_processed_block |-> n]

\* Valid JSON that _save_state never writes: an object without the key
\* last_processed_block (such as {}), and a value that is no object (such as
\* [] or 5).
NoKey == [kind |-> "json_nokey"]
NotObject == [kind |-> "json_notobject"]

\* EventListener._load_state raises: state['last_processed_block'] in the
\* log message is a KeyError for an object without the key and a TypeError
\* for a list or a number, and only FileNotFoundError and JSONDecodeError are
\* caught.
load_state_raises(d) == d.kind \in {"json_nokey", "json_notobject"}

\* EventListener._load_state when it returns: the stored cursor, or the start
\* block when the file is missing or is not JSON.
load_state(d) ==
  CASE d.kind = "json"                -> d.last_processed_block
    [] d.kind \in {"absent", "corrupt"} -> start_block

\* EventListener._save_state: open(..., 'w') truncates the file and json.dump
\* writes it; an IOError is logged and swallowed.  The open may fail (the file
\* is as it was) or the write may fail after the truncation.
SaveOutcomes == {"ok", "ioerror_at_open", "ioerror_at_write"}

save_state(d, cursor, outcome) ==
  CASE outcome = "ok"               -> Stored(cursor)
    [] outcome = "ioerror_at_open"  -> d
    [] outcome = "ioerror_at_write" -> Corrupt

Max(a, b) == IF a >= b THEN a ELSE b

Persisted(d, outcome) ==
  IF outcome = "ok" THEN Max(maxPersisted, d.last_processed_block) ELSE maxPersisted

(***************************************************************************)
(* Initial state: EventListener.__init__ on a machine with no state file.  *)
(***************************************************************************)
Pending == [tag |-> "pending"]

DecoderIdle ==
  /\ d_log = [data |-> <<>>, blockNumber |-> 0]
  /\ d_result = Pending
  /\ d_edits = 0
  /\ d_event = None

RelayInit ==
  /\ run = 1
  /\ phase = "INIT"
  /\ pc = "init"
  /\ disk = Absent
  /\ last_processed_block = load_state(Absent)
  /\ loaded = load_state(Absent)
  /\ cancelled_at = "none"
  /\ ranges = <<>> /\ batch = <<>> /\ offered = <<>>
  /\ last_done = None
  /\ current_block = start_block
  /\ latest_block = 0 /\ from_block = 0 /\ to_block = 0
  /\ logs = <<>>
  /\ pending_transactions = <<>>
  /\ processed_nonces = {}
  /\ cpc = "none"
  /\ event_to_process = None
  /\ accepted = <<>> /\ dequeued = <<>>
  /\ decoded = {} /\ submitted = {}
  /\ maxPersisted = 0
  /\ failCursor = -1
  /\ drainSaveCalls = 0 /\ drainPersists = 0

Init == RelayInit /\ DecoderIdle

(***************************************************************************)
(* EventListener.run: the poll loop.                                       *)
(***************************************************************************)
\* The task is suspended in an await: the other task may run, and a
\* cancellation may be delivered.
Suspended == pc \in {"head", "logs", "sleep"}

\* run() starts: the consumer task is created and the loop is entered.  The
\* consumer runs to its first dequeue as soon as the loop first suspends.
Start ==
  /\ phase = "INIT"
  /\ phase' = "RUNNING"
  /\ pc' = "head"
  /\ cpc' = "get"
  /\ UNCHANGED << run, last_processed_block, disk, current_block, latest_block,
                  from_block, to_block, logs, pending_transactions,
                  processed_nonces, event_to_process, accepted, dequeued,
                  decoded, submitted, maxPersisted, failCursor, drainSaveCalls,
                  drainPersists, decoderVars,
                  loaded, cancelled_at, ranges, batch, offered, last_done >>

\* (a no-work test that is off by one)
NoWorkYet_OffByOne(from, to) == from > to + 1

\* if from_block > to_block
NoWorkYet(from, to) == from > to

\* (the confirmation depth forgotten)
ToBlock_NoConfirmations(latest) == latest

\* (one confirmation too few)
ToBlock_OneShort(latest) == latest - confirmation_blocks + 1

\* to_block = latest_block - confirmation_blocks
ToBlock(latest) == latest - confirmation_blocks

\* (a range that begins one block too far)
HeadReturn_SkipOne ==
  /\ phase = "RUNNING" /\ pc = "head"
  /\ \E inc \in 0..2 :
       /\ current_block + inc <= MaxHead
       /\ current_block' = current_block + inc
  /\ latest_block' = current_block'
  /\ from_block' = last_processed_block + 2
  /\ to_block' = ToBlock(latest_block')
  /\ pc' = IF NoWorkYet(from_block', to_block') THEN "sleep" ELSE "logs"
  /\ failCursor' = -1
  /\ UNCHANGED << run, phase, last_processed_block, disk, logs,
                  pending_transactions, processed_nonces, cpc, event_to_process,
                  accepted, dequeued, decoded, submitted, maxPersisted,
                  drainSaveCalls, drainPersists, decoderVars,
                  loaded, cancelled_at, ranges, batch, offered, last_done >>

\* get_latest_block_number returns: the mock's head moves on by 0, 1 or 2, the
\* range is computed, and either there is no work (sleep, continue) or
\* get_logs is called.
HeadReturn ==
  /\ phase = "RUNNING" /\ pc = "head"
  /\ \E inc \in 0..2 :
       /\ current_block + inc <= MaxHead
       /\ current_block' = current_block + inc
  /\ latest_block' = current_block'
  /\ from_block' = last_processed_block + 1
  /\ to_block' = ToBlock(latest_block')
  /\ pc' = IF NoWorkYet(from_block', to_block') THEN "sleep" ELSE "logs"
  /\ failCursor' = -1
  /\ UNCHANGED << run, phase, last_processed_block, disk, logs,
                  pending_transactions, processed_nonces, cpc, event_to_process,
                  accepted, dequeued, decoded, submitted, maxPersisted,
                  drainSaveCalls, drainPersists, decoderVars,
                  loaded, cancelled_at, ranges, batch, offered, last_done >>

\* get_latest_block_number raises: except Exception logs it, and the loop
\* sleeps one poll interval.
HeadFail ==
  /\ phase = "RUNNING" /\ pc = "head"
  /\ pc' = "sleep"
  /\ failCursor' = last_processed_block
  /\ UNCHANGED << run, phase, last_processed_block, disk, current_block,
                  latest_block, from_block, to_block, logs, pending_transactions,
                  processed_nonces, cpc, event_to_process, accepted, dequeued,
                  decoded, submitted, maxPersisted, drainSaveCalls,
                  drainPersists, decoderVars,
                  loaded, cancelled_at, ranges, batch, offered, last_done >>

\* What get_logs may return for a range: up to MaxBatch Lock event logs of
\* blocks in it and up to MaxMalformed logs that do not decode (a short log
\* of the first block, a log with a bad digit of the last block), each log
\* once, in the order of the chain as a node returns them: by block and, in
\* a block, by the log's index (the short log first, the Lock event logs by
\* nonce, the log with the bad digit last).
LogIndex(l) ==
  CASE l.kind = "short"  -> 0
    [] l.kind = "lock"   -> l.nonce
    [] l.kind = "nonhex" -> MaxNonce + 1

ChainOrder(l1, l2) ==
  \/ l1.blockNumber < l2.blockNumber
  \/ l1.blockNumber = l2.blockNumber /\ LogIndex(l1) < LogIndex(l2)

Malformed(lo, hi) ==
  { [kind |-> "short", nonce |-> 0, blockNumber |-> lo],
    [kind |-> "nonhex", nonce |-> 0, blockNumber |-> hi] }

CountKind(b, kinds) == Cardinality({i \in 1..Len(b) : b[i].kind \in kinds})

BatchesOf(lo, hi) ==
  { b \in UNION { [1..n -> [kind : {"lock"}, nonce : Nonces, blockNumber : lo..hi]
                             \cup Malformed(lo, hi)] :
                   n \in 0..(MaxBatch + MaxMalformed) } :
      /\ CountKind(b, {"lock"}) <= MaxBatch
      /\ CountKind(b, {"short", "nonhex"}) <= MaxMalformed
      /\ \A i, j \in 1..Len(b) : i < j => ChainOrder(b[i], b[j]) }

\* The batches of every range the loop can ask for, worked out once.
BatchTable ==
  [r \in { rr \in ((start_block + 1)..(MaxHead - confirmation_blocks))
                  \X ((start_block + 1)..(MaxHead - confirmation_blocks)) :
            rr[1] <= rr[2] } |-> BatchesOf(r[1], r[2])] @@ <<>>

Batches(lo, hi) == IF lo > hi THEN {<<>>} ELSE BatchTable[<< lo, hi >>]

\* get_logs returns a batch.
LogsReturn ==
  /\ phase = "RUNNING" /\ pc = "logs"
  /\ logs' \in Batches(from_block, to_block)
  /\ batch' = logs' /\ offered' = <<>>
  /\ pc' = "process"
  /\ UNCHANGED << run, phase, last_processed_block, disk, current_block,
                  latest_block, from_block, to_block, pending_transactions,
                  processed_nonces, cpc, event_to_process, accepted, dequeued,
                  decoded, submitted, maxPersisted, failCursor, drainSaveCalls,
                  drainPersists, decoderVars,
                  loaded, cancelled_at, ranges, last_done >>

\* (a failed fetch that moves the cursor on all the same)
LogsFail_Advancing ==
  /\ phase = "RUNNING" /\ pc = "logs"
  /\ pc' = "sleep"
  /\ failCursor' = last_processed_block
  /\ last_processed_block' = to_block
  /\ UNCHANGED << run, phase, disk, current_block,
                  latest_block, from_block, to_block, logs, pending_transactions,
                  processed_nonces, cpc, event_to_process, accepted, dequeued,
                  decoded, submitted, maxPersisted, drainSaveCalls,
                  drainPersists, decoderVars,
                  loaded, cancelled_at, ranges, batch, offered, last_done >>

\* get_logs raises: as for the head.
LogsFail ==
  /\ phase = "RUNNING" /\ pc = "logs"
  /\ pc' = "sleep"
  /\ failCursor' = last_processed_block
  /\ UNCHANGED << run, phase, last_processed_block, disk, current_block,
                  latest_block, from_block, to_block, logs, pending_transactions,
                  processed_nonces, cpc, event_to_process, accepted, dequeued,
                  decoded, submitted, maxPersisted, drainSaveCalls,
                  drainPersists, decoderVars,
                  loaded, cancelled_at, ranges, batch, offered, last_done >>

\* (a submit that does not look at the registry)
submit_mint_transaction_NoCheck(event) ==
  /\ pending_transactions' = Append(pending_transactions, event)
  /\ processed_nonces' = processed_nonces \cup {event.nonce}
  /\ accepted' = Append(accepted, event)

\* DestinationTransactionProcessor.submit_mint_transaction: a nonce of the
\* registry is skipped; otherwise the event is put on the (unbounded) queue
\* and its nonce is registered.
submit_mint_transaction(event) ==
  IF event.nonce \in processed_nonces
  THEN UNCHANGED << pending_transactions, processed_nonces, accepted >>
  ELSE /\ pending_transactions' = Append(pending_transactions, event)
       /\ processed_nonces' = processed_nonces \cup {event.nonce}
       /\ accepted' = Append(accepted, event)

\* (a log that does not decode ends the iteration as a failed one)
ProcessLog_Abort ==
  /\ phase = "RUNNING" /\ pc = "process" /\ logs # <<>>
  /\ LET parsed_event == ParseInLoop(Head(logs))
     IN  IF parsed_event # None
         THEN /\ submit_mint_transaction(parsed_event)
              /\ decoded' = decoded \cup {parsed_event}
              /\ offered' = Append(offered, parsed_event)
              /\ logs' = Tail(logs)
              /\ UNCHANGED << pc, failCursor >>
         ELSE /\ pc' = "sleep" /\ failCursor' = last_processed_block
              /\ logs' = <<>>
              /\ UNCHANGED << pending_transactions, processed_nonces, accepted,
                              decoded, offered >>
  /\ UNCHANGED << run, phase, last_processed_block, disk, current_block,
                  latest_block, from_block, to_block, cpc, event_to_process,
                  dequeued, submitted, maxPersisted, drainSaveCalls,
                  drainPersists, decoderVars, loaded, cancelled_at, ranges, batch, last_done >>

\* One turn of `for log in logs`: decode the log and, if it decodes, submit
\* it.  The queue is unbounded, so the put never suspends.
ProcessLog ==
  /\ phase = "RUNNING" /\ pc = "process" /\ logs # <<>>
  /\ LET parsed_event == ParseInLoop(Head(logs))
     IN  IF parsed_event # None
         THEN /\ submit_mint_transaction(parsed_event)
              /\ decoded' = decoded \cup {parsed_event}
              /\ offered' = Append(offered, parsed_event)
         ELSE UNCHANGED << pending_transactions, processed_nonces, accepted,
                           decoded, offered >>
  /\ logs' = Tail(logs)
  /\ UNCHANGED << run, phase, pc, last_processed_block, disk, current_block,
                  latest_block, from_block, to_block, cpc, event_to_process,
                  dequeued, submitted, maxPersisted, failCursor, drainSaveCalls,
                  drainPersists, decoderVars,
                  loaded, cancelled_at, ranges, batch, last_done >>

\* (the cursor saved before the batch has been handled)
AdvanceAndSave_Early ==
  /\ phase = "RUNNING" /\ pc = "process"
  /\ last_processed_block' = to_block
  /\ ranges' = Append(ranges, << from_block, to_block >>)
  /\ batch' = <<>> /\ offered' = <<>>
  /\ \E outcome \in SaveOutcomes :
       /\ disk' = save_state(disk, last_processed_block', outcome)
       /\ maxPersisted' = Persisted(disk', outcome)
  /\ pc' = "sleep"
  /\ UNCHANGED << run, phase, current_block, latest_block, from_block, to_block,
                  logs, pending_transactions, processed_nonces, cpc,
                  event_to_process, accepted, dequeued, decoded, submitted,
                  failCursor, drainSaveCalls, drainPersists, decoderVars,
                  loaded, cancelled_at, last_done >>

\* After the batch: the cursor becomes to_block and the state is saved; then
\* the loop sleeps.
AdvanceAndSave ==
  /\ phase = "RUNNING" /\ pc = "process" /\ logs = <<>>
  /\ last_processed_block' = to_block
  /\ ranges' = Append(ranges, << from_block, to_block >>)
  /\ batch' = <<>> /\ offered' = <<>>
  /\ \E outcome \in SaveOutcomes :
       /\ disk' = save_state(disk, last_processed_block', outcome)
       /\ maxPersisted' = Persisted(disk', outcome)
  /\ pc' = "sleep"
  /\ UNCHANGED << run, phase, current_block, latest_block, from_block, to_block,
                  logs, pending_transactions, processed_nonces, cpc,
                  event_to_process, accepted, dequeued, decoded, submitted,
                  failCursor, drainSaveCalls, drainPersists, decoderVars,
                  loaded, cancelled_at, last_done >>

\* asyncio.sleep(poll_interval_seconds) ends (either of the two sleeps): the
\* next iteration begins.  The iteration's locals are dead from here on.
Wake ==
  /\ phase = "RUNNING" /\ pc = "sleep"
  /\ pc' = "head"
  /\ latest_block' = 0 /\ from_block' = 0 /\ to_block' = 0
  /\ batch' = <<>> /\ offered' = <<>>
  /\ UNCHANGED << run, phase, last_processed_block, disk, current_block, logs,
                  pending_transactions, processed_nonces, cpc, event_to_process,
                  accepted, dequeued, decoded, submitted, maxPersisted,
                  failCursor, drainSaveCalls, drainPersists, decoderVars,
                  loaded, cancelled_at, ranges, last_done >>


(***************************************************************************)
(* DestinationTransactionProcessor.process_queue: the consumer task.  It   *)
(* runs only while the poll loop is suspended (one event loop, cooperative *)
(* scheduling).                                                            *)
(***************************************************************************)
\* (a dequeue that takes the newest item)
ConsumerGet_Newest ==
  /\ phase = "RUNNING" /\ Suspended
  /\ cpc = "get" /\ pending_transactions # <<>>
  /\ event_to_process' = pending_transactions[Len(pending_transactions)]
  /\ pending_transactions' = SubSeq(pending_transactions, 1, Len(pending_transactions) - 1)
  /\ dequeued' = Append(dequeued, pending_transactions[Len(pending_transactions)])
  /\ cpc' = "send"
  /\ UNCHANGED << run, phase, pc, last_processed_block, disk, current_block,
                  latest_block, from_block, to_block, logs, processed_nonces,
                  accepted, decoded, submitted, maxPersisted, failCursor,
                  drainSaveCalls, drainPersists, decoderVars,
                  loaded, cancelled_at, ranges, batch, offered, last_done >>

\* await self._pending_transactions.get() returns the oldest item.
ConsumerGet ==
  /\ phase = "RUNNING" /\ Suspended
  /\ cpc = "get" /\ pending_transactions # <<>>
  /\ event_to_process' = Head(pending_transactions)
  /\ pending_transactions' = Tail(pending_transactions)
  /\ dequeued' = Append(dequeued, Head(pending_transactions))
  /\ cpc' = "send"
  /\ UNCHANGED << run, phase, pc, last_processed_block, disk, current_block,
                  latest_block, from_block, to_block, logs, processed_nonces,
                  accepted, decoded, submitted, maxPersisted, failCursor,
                  drainSaveCalls, drainPersists, decoderVars,
                  loaded, cancelled_at, ranges, batch, offered, last_done >>

\* asyncio.sleep(2) ends: the transaction is sent.
ConsumerSend ==
  /\ phase = "RUNNING" /\ Suspended
  /\ cpc = "send"
  /\ submitted' = submitted \cup {event_to_process}
  /\ cpc' = "confirm"
  /\ UNCHANGED << run, phase, pc, last_processed_block, disk, current_block,
                  latest_block, from_block, to_block, logs, pending_transactions,
                  processed_nonces, event_to_process, accepted, dequeued,
                  decoded, maxPersisted, failCursor, drainSaveCalls,
                  drainPersists, decoderVars,
                  loaded, cancelled_at, ranges, batch, offered, last_done >>

\* asyncio.sleep(3) ends: the transaction is confirmed, task_done().
ConsumerConfirm ==
  /\ phase = "RUNNING" /\ Suspended
  /\ cpc = "confirm"
  /\ event_to_process' = None
  /\ last_done' = [event |-> event_to_process, outcome |-> "confirmed"]
  /\ cpc' = "get"
  /\ UNCHANGED << run, phase, pc, last_processed_block, disk, current_block,
                  latest_block, from_block, to_block, logs, pending_transactions,
                  processed_nonces, accepted, dequeued, decoded, submitted,
                  maxPersisted, failCursor, drainSaveCalls, drainPersists,
                  decoderVars,
                  loaded, cancelled_at, ranges, batch, offered >>

\* (an error in the item ends the consumer task)
ConsumerSendFail_Exits ==
  /\ phase = "RUNNING" /\ Suspended
  /\ cpc = "send"
  /\ event_to_process' = None
  /\ last_done' = [event |-> event_to_process, outcome |-> "failed"]
  /\ cpc' = "done"
  /\ UNCHANGED << run, phase, pc, last_processed_block, disk, current_block,
                  latest_block, from_block, to_block, logs, pending_transactions,
                  processed_nonces, accepted, dequeued, decoded, submitted,
                  maxPersisted, failCursor, drainSaveCalls, drainPersists,
                  decoderVars, loaded, cancelled_at, ranges, batch, offered >>

\* The submit phase raises an Exception (in asyncio.sleep(2) or in building
\* the hash): except Exception logs it and the while loop goes on to the next
\* dequeue; the item is dropped, task_done() is not called.
ConsumerSendFail ==
  /\ phase = "RUNNING" /\ Suspended
  /\ cpc = "send"
  /\ event_to_process' = None
  /\ last_done' = [event |-> event_to_process, outcome |-> "failed"]
  /\ cpc' = "get"
  /\ UNCHANGED << run, phase, pc, last_processed_block, disk, current_block,
                  latest_block, from_block, to_block, logs, pending_transactions,
                  processed_nonces, accepted, dequeued, decoded, submitted,
                  maxPersisted, failCursor, drainSaveCalls, drainPersists,
                  decoderVars, loaded, cancelled_at, ranges, batch, offered >>

\* (a failure in the confirm phase that ends the consumer task)
ConsumerConfirmFail_Exits ==
  /\ phase = "RUNNING" /\ Suspended
  /\ cpc = "confirm"
  /\ event_to_process' = None
  /\ last_done' = [event |-> event_to_process, outcome |-> "failed"]
  /\ cpc' = "done"
  /\ UNCHANGED << run, phase, pc, last_processed_block, disk, current_block,
                  latest_block, from_block, to_block, logs, pending_transactions,
                  processed_nonces, accepted, dequeued, decoded, submitted,
                  maxPersisted, failCursor, drainSaveCalls, drainPersists,
                  decoderVars, loaded, cancelled_at, ranges, batch, offered >>

\* The confirm phase raises an Exception (in asyncio.sleep(3)): the same, for
\* an item whose transaction was sent.
ConsumerConfirmFail ==
  /\ phase = "RUNNING" /\ Suspended
  /\ cpc = "confirm"
  /\ event_to_process' = None
  /\ last_done' = [event |-> event_to_process, outcome |-> "failed"]
  /\ cpc' = "get"
  /\ UNCHANGED << run, phase, pc, last_processed_block, disk, current_block,
                  latest_block, from_block, to_block, logs, pending_transactions,
                  processed_nonces, accepted, dequeued, decoded, submitted,
                  maxPersisted, failCursor, drainSaveCalls, drainPersists,
                  decoderVars, loaded, cancelled_at, ranges, batch, offered >>

(***************************************************************************)
(* Shutdown: the cancellation of run() and its finally block.              *)
(***************************************************************************)
\* (a shutdown that returns at once, without the finally block)
Shutdown_Abrupt ==
  /\ phase = "RUNNING" /\ Suspended
  /\ phase' = "STOPPED"
  /\ pc' = "done"
  /\ latest_block' = 0 /\ from_block' = 0 /\ to_block' = 0
  /\ batch' = <<>> /\ offered' = <<>>
  /\ failCursor' = -1
  /\ cancelled_at' = pc
  /\ UNCHANGED << run, last_processed_block, disk, current_block, logs,
                  pending_transactions, processed_nonces, cpc, event_to_process,
                  accepted, dequeued, decoded, submitted, maxPersisted,
                  drainSaveCalls, drainPersists, decoderVars,
                  loaded, ranges, last_done >>

\* (a cancellation that also arrives while a batch is being handled)
Shutdown_MidBatch ==
  /\ phase = "RUNNING" /\ (Suspended \/ pc = "process")
  /\ phase' = "DRAINING"
  /\ pc' = "finally"
  /\ latest_block' = 0 /\ from_block' = 0 /\ to_block' = 0
  /\ batch' = <<>> /\ offered' = <<>>
  /\ failCursor' = -1
  /\ cancelled_at' = pc
  /\ UNCHANGED << run, last_processed_block, disk, current_block, logs,
                  pending_transactions, processed_nonces, cpc, event_to_process,
                  accepted, dequeued, decoded, submitted, maxPersisted,
                  drainSaveCalls, drainPersists, decoderVars,
                  loaded, ranges, last_done >>

\* CancelledError is raised in the await the loop is suspended in; it is not
\* an Exception, so it leaves the loop.  The finally block cancels the
\* consumer task and awaits it.
Shutdown ==
  /\ phase = "RUNNING" /\ Suspended
  /\ phase' = "DRAINING"
  /\ pc' = "finally"
  /\ latest_block' = 0 /\ from_block' = 0 /\ to_block' = 0
  /\ batch' = <<>> /\ offered' = <<>>
  /\ failCursor' = -1
  /\ cancelled_at' = pc
  /\ UNCHANGED << run, last_processed_block, disk, current_block, logs,
                  pending_transactions, processed_nonces, cpc, event_to_process,
                  accepted, dequeued, decoded, submitted, maxPersisted,
                  drainSaveCalls, drainPersists, decoderVars,
                  loaded, ranges, last_done >>

\* The consumer gets CancelledError in the await it is suspended in (the
\* dequeue or one of the two sleeps), logs and breaks: its item, if it has
\* one, is dropped.
ConsumerCancelled ==
  /\ phase = "DRAINING" /\ cpc \in {"get", "send", "confirm"}
  /\ cpc' = "done"
  /\ event_to_process' = None
  /\ UNCHANGED << run, phase, pc, last_processed_block, disk, current_block,
                  latest_block, from_block, to_block, logs, pending_transactions,
                  processed_nonces, accepted, dequeued, decoded, submitted,
                  maxPersisted, failCursor, drainSaveCalls, drainPersists,
                  decoderVars,
                  loaded, cancelled_at, ranges, batch, offered, last_done >>

\* (a final save that does not wait for the consumer task)
FinalSave_NotAwaited ==
  /\ phase = "DRAINING"
  /\ \E outcome \in SaveOutcomes :
       /\ disk' = save_state(disk, last_processed_block, outcome)
       /\ maxPersisted' = Persisted(disk', outcome)
       /\ drainPersists' = drainPersists + (IF outcome = "ok" THEN 1 ELSE 0)
  /\ drainSaveCalls' = drainSaveCalls + 1
  /\ phase' = "STOPPED"
  /\ pc' = "done"
  /\ UNCHANGED << run, last_processed_block, current_block, latest_block,
                  from_block, to_block, logs, pending_transactions,
                  processed_nonces, cpc, event_to_process, accepted, dequeued,
                  decoded, submitted, failCursor, decoderVars,
                  loaded, cancelled_at, ranges, batch, offered, last_done >>

\* await processor_task returns; the final _save_state(); run() returns.
FinalSave ==
  /\ phase = "DRAINING" /\ cpc = "done"
  /\ \E outcome \in SaveOutcomes :
       /\ disk' = save_state(disk, last_processed_block, outcome)
       /\ maxPersisted' = Persisted(disk', outcome)
       /\ drainPersists' = drainPersists + (IF outcome = "ok" THEN 1 ELSE 0)
  /\ drainSaveCalls' = drainSaveCalls + 1
  /\ phase' = "STOPPED"
  /\ pc' = "done"
  /\ UNCHANGED << run, last_processed_block, current_block, latest_block,
                  from_block, to_block, logs, pending_transactions,
                  processed_nonces, cpc, event_to_process, accepted, dequeued,
                  decoded, submitted, failCursor, decoderVars,
                  loaded, cancelled_at, ranges, batch, offered, last_done >>

(***************************************************************************)
(* Crashes and restarts.                                                   *)
(***************************************************************************)
\* The process is killed.  Nothing in memory survives; the file is as the
\* last save left it.
Crash ==
  /\ phase \in {"RUNNING", "DRAINING"}
  /\ phase' = "CRASHED"
  /\ UNCHANGED << run, pc, last_processed_block, disk, current_block,
                  latest_block, from_block, to_block, logs, pending_transactions,
                  processed_nonces, cpc, event_to_process, accepted, dequeued,
                  decoded, submitted, maxPersisted, failCursor, drainSaveCalls,
                  drainPersists, decoderVars,
                  loaded, cancelled_at, ranges, batch, offered, last_done >>

\* The process is killed inside _save_state, between the truncating open and
\* the end of the write.
CrashInSave ==
  /\ \/ phase = "RUNNING" /\ pc = "process" /\ logs = <<>>
     \/ phase = "DRAINING" /\ cpc = "done"
  /\ phase' = "CRASHED"
  /\ disk' = Corrupt
  /\ UNCHANGED << run, pc, last_processed_block, current_block, latest_block,
                  from_block, to_block, logs, pending_transactions,
                  processed_nonces, cpc, event_to_process, accepted, dequeued,
                  decoded, submitted, maxPersisted, failCursor, drainSaveCalls,
                  drainPersists, decoderVars,
                  loaded, cancelled_at, ranges, batch, offered, last_done >>

\* A new process: EventListener.__init__ loads the state and builds a new
\* connector and a new processor (an empty queue, an empty registry).
Restart ==
  /\ phase \in {"STOPPED", "CRASHED"}
  /\ run < MaxRuns
  /\ run' = run + 1
  /\ phase' = "INIT"
  /\ pc' = "init"
  /\ last_processed_block' = load_state(disk)
  /\ loaded' = load_state(disk)
  /\ cancelled_at' = "none"
  /\ ranges' = <<>> /\ batch' = <<>> /\ offered' = <<>>
  /\ last_done' = None
  /\ current_block' = start_block
  /\ latest_block' = 0 /\ from_block' = 0 /\ to_block' = 0
  /\ logs' = <<>>
  /\ pending_transactions' = <<>>
  /\ processed_nonces' = {}
  /\ cpc' = "none"
  /\ event_to_process' = None
  /\ accepted' = <<>> /\ dequeued' = <<>>
  /\ failCursor' = -1
  /\ drainSaveCalls' = 0 /\ drainPersists' = 0
  /\ UNCHANGED << disk, decoded, submitted, maxPersisted, decoderVars >>

(***************************************************************************)
(* Specifications.                                                         *)
(***************************************************************************)
\* One process lifetime.
Next ==
  \/ Start
  \/ HeadReturn
  \/ HeadFail
  \/ LogsReturn
  \/ LogsFail
  \/ ProcessLog
  \/ AdvanceAndSave
  \/ Wake
  \/ ConsumerGet
  \/ ConsumerSend
  \/ ConsumerConfirm
  \/ ConsumerSendFail
  \/ ConsumerConfirmFail
  \/ Shutdown
  \/ ConsumerCancelled
  \/ FinalSave

Spec == Init /\ [][Next]_vars

\* Processes that crash or shut down and are started again.
NextRestart ==
  \/ Next
  \/ Crash
  \/ CrashInSave
  \/ Restart

SpecRestart == Init /\ [][NextRestart]_vars


(***************************************************************************)
(* A start on any state file: main() constructs the EventListener          *)
(* (phase NEW -> INIT, or FAILED when __init__ raises) and runs it.        *)
(***************************************************************************)
\* What the state file may hold when the process starts.
StateFiles ==
  {Absent, Corrupt, NoKey, NotObject}
  \cup {Stored(n) : n \in start_block..(start_block + MaxSmallInt)}

StartupInit ==
  /\ run = 1
  /\ phase = "NEW"
  /\ pc = "init"
  /\ disk \in StateFiles
  /\ last_processed_block = -1
  /\ loaded = -1
  /\ cancelled_at = "none"
  /\ ranges = <<>> /\ batch = <<>> /\ offered = <<>>
  /\ last_done = None
  /\ current_block = start_block
  /\ latest_block = 0 /\ from_block = 0 /\ to_block = 0
  /\ logs = <<>>
  /\ pending_transactions = <<>>
  /\ processed_nonces = {}
  /\ cpc = "none"
  /\ event_to_process = None
  /\ accepted = <<>> /\ dequeued = <<>>
  /\ decoded = {} /\ submitted = {}
  /\ maxPersisted = 0
  /\ failCursor = -1
  /\ drainSaveCalls = 0 /\ drainPersists = 0
  /\ DecoderIdle

\* EventListener.__init__: self.state = self._load_state(), once; an
\* exception it raises leaves main() and ends the process.
Construct ==
  /\ phase = "NEW"
  /\ IF load_state_raises(disk)
     THEN /\ phase' = "FAILED"
          /\ UNCHANGED << last_processed_block, loaded >>
     ELSE /\ phase' = "INIT"
          /\ last_processed_block' = load_state(disk)
          /\ loaded' = load_state(disk)
  /\ UNCHANGED << run, pc, disk, current_block, latest_block, from_block,
                  to_block, logs, pending_transactions, processed_nonces, cpc,
                  event_to_process, accepted, dequeued, decoded, submitted,
                  maxPersisted, failCursor, drainSaveCalls, drainPersists,
                  decoderVars,
                  cancelled_at, ranges, batch, offered, last_done >>

NextStartup ==
  \/ Construct
  \/ Next

SpecStartup == StartupInit /\ [][NextStartup]_vars

\* A process that is never told to shut down, under the scheduling of the
\* event loop: a task whose await has completed is resumed (every sleep
\* ends, a ready callback is run), the poll loop's batch handling runs to
\* its end without suspending, and the consumer, which runs only while the
\* poll loop is suspended, is resumed at the poll loop's next await.  Reads
\* of the chain may fail, but not for ever: a read that is tried again and
\* again succeeds again and again.
NextLive ==
  \/ Start
  \/ HeadReturn
  \/ HeadFail
  \/ LogsReturn
  \/ LogsFail
  \/ ProcessLog
  \/ AdvanceAndSave
  \/ Wake
  \/ ConsumerGet
  \/ ConsumerSend
  \/ ConsumerConfirm
  \/ ConsumerSendFail
  \/ ConsumerConfirmFail

Fairness ==
  /\ WF_vars(Start)
  /\ SF_vars(HeadReturn)
  /\ SF_vars(LogsReturn)
  /\ WF_vars(ProcessLog)
  /\ WF_vars(AdvanceAndSave)
  /\ WF_vars(Wake)
  /\ SF_vars(ConsumerGet)
  /\ SF_vars(ConsumerSend \/ ConsumerSendFail)
  /\ SF_vars(ConsumerConfirm \/ ConsumerConfirmFail)

SpecLive == Init /\ [][NextLive]_vars /\ Fairness


(***************************************************************************)
(* The decoder on its own: a raw log starts as a log the connector         *)
(* generates, is edited up to MaxEdits times (a character inserted,        *)
(* replaced or deleted), and is then decoded.                              *)
(***************************************************************************)
\* Characters an edit may write: hexadecimal digits, the letters of the
\* prefix, a letter that is no digit, the signs, the underscore, a space.
EditChars == {"0", "f", "x", "X", "g", "-", "+", "_", " "}

\* Where an edit may act (1-based, in the data with its prefix): the prefix,
\* the first characters of the source_token slot, the first and the last
\* character of the destination_chain_id slot, the last character of all.
EditPositions == {1, 3, 4, 67, 130, 322}

DecoderInit ==
  /\ RelayInit
  /\ \E n \in Nonces : d_log = generate_mock_lock_event_log(start_block + 1, Amount100, NatToPy(n))
  /\ d_result = Pending
  /\ d_edits = 0
  /\ d_event = None

InsertAt(s, p, c) == SubSeq(s, 1, p - 1) \o <<c>> \o SubSeq(s, p, Len(s))
ReplaceAt(s, p, c) == SubSeq(s, 1, p - 1) \o <<c>> \o SubSeq(s, p + 1, Len(s))
DeleteAt(s, p) == SubSeq(s, 1, p - 1) \o SubSeq(s, p + 1, Len(s))

EditInsert ==
  /\ d_result = Pending /\ d_edits < MaxEdits
  /\ \E p \in EditPositions, c \in EditChars :
       /\ p <= Len(d_log.data) + 1
       /\ d_log' = [d_log EXCEPT !.data = InsertAt(d_log.data, p, c)]
  /\ d_edits' = d_edits + 1
  /\ UNCHANGED << d_result, d_event, relayVars >>

EditReplace ==
  /\ d_result = Pending /\ d_edits < MaxEdits
  /\ \E p \in EditPositions, c \in EditChars :
       /\ p <= Len(d_log.data)
       /\ d_log.data[p] # c
       /\ d_log' = [d_log EXCEPT !.data = ReplaceAt(d_log.data, p, c)]
  /\ d_edits' = d_edits + 1
  /\ UNCHANGED << d_result, d_event, relayVars >>

EditDelete ==
  /\ d_result = Pending /\ d_edits < MaxEdits
  /\ \E p \in EditPositions :
       /\ p <= Len(d_log.data)
       /\ d_log' = [d_log EXCEPT !.data = DeleteAt(d_log.data, p)]
  /\ d_edits' = d_edits + 1
  /\ UNCHANGED << d_result, d_event, relayVars >>

Decode ==
  /\ d_result = Pending
  /\ d_result' = parse_lock_event_from_log(d_log)
  /\ UNCHANGED << d_log, d_edits, d_event, relayVars >>

DecoderNext == EditInsert \/ EditReplace \/ EditDelete \/ Decode

SpecDecoder == DecoderInit /\ [][DecoderNext]_vars


(***************************************************************************)
(* The round trip: a valid ParsedLockEvent is encoded as the connector     *)
(* encodes its mock event, and the raw log is decoded.                     *)
(***************************************************************************)
\* 2^256 - 1 and 2^255
Uint256Max == [neg |-> FALSE, mag |-> AsSeq([i \in 1..64 |-> 15], 64)]
Uint256Top == [neg |-> FALSE, mag |-> <<8>> \o AsSeq([i \in 1..63 |-> 0], 63)]

\* Integer fields: the small values, the mock's values and the largest ones.
ValidInts ==
  {NatToPy(n) : n \in 0..MaxSmallInt} \cup {Mumbai, Amount100, Uint256Top, Uint256Max}

\* 20-byte addresses: the mock's two (mixed case), the zero address and one
\* with leading zero bytes.
ZeroAddress == <<"0", "x">> \o Zeros(AddressWidth)
LowAddress == <<"0", "x">> \o Zeros(AddressWidth - 2) \o <<"F", "e">>
ValidAddresses == {WETH, Recipient, ZeroAddress, LowAddress}

ValidEvents ==
  [ source_token         : ValidAddresses,
    destination_chain_id : ValidInts,
    recipient_address    : ValidAddresses,
    amount               : ValidInts,
    nonce                : ValidInts,
    block_number         : {0, 42, start_block + 1} ]

RoundTripInit ==
  /\ RelayInit
  /\ d_event \in ValidEvents
  /\ d_log = [data |-> <<>>, blockNumber |-> 0]
  /\ d_result = Pending
  /\ d_edits = 0

RoundTripEncode ==
  /\ d_event # None /\ d_log.data = <<>>
  /\ d_log' = EncodeLockEvent(d_event)
  /\ UNCHANGED << d_result, d_edits, d_event, relayVars >>

RoundTripDecode ==
  /\ d_event # None /\ d_log.data # <<>>
  /\ Decode

RoundTripNext == RoundTripEncode \/ RoundTripDecode

SpecRoundTrip == RoundTripInit /\ [][RoundTripNext]_vars


(***************************************************************************)
(* Claims about the decoder (checked under SpecDecoder).                   *)
(***************************************************************************)
\* The data without its presentation prefix: a leading "0x" is dropped.
StripPrefix(data) ==
  IF Len(data) >= 2 /\ data[1] = "0" /\ data[2] = "x"
  THEN SubSeq(data, 3, Len(data)) ELSE data

Decoded == d_result # Pending
IsEvent(r) == r # Pending /\ r # None

\* C9 (as claimed): a log whose data, without its leading prefix, is not
\* exactly 320 characters long is never decoded into a ParsedLockEvent, also
\* when "0x" occurs elsewhere in the data.
C9_MalformedRejected ==
  (Decoded /\ Len(StripPrefix(d_log.data)) # ExpectedLen) => d_result = None

\* C10 (as claimed): a log whose data has the right length and holds a
\* character that is no hexadecimal digit is never decoded into a
\* ParsedLockEvent, and every integer field of a decoded event is in
\* 0 .. 2^256 - 1.
HasNonHex(s) == \E i \in 1..Len(s) : ~IsHexChar(s[i])

\* 0 <= v <= 2^256 - 1: no sign and at most 64 hexadecimal digits.
InUint256(v) == ~v.neg /\ Len(v.mag) <= 64

C10_NonHexRejected ==
  /\ (Decoded /\ Len(StripPrefix(d_log.data)) = ExpectedLen
        /\ HasNonHex(StripPrefix(d_log.data))) => d_result = None
  /\ IsEvent(d_result) =>
       /\ InUint256(d_result.destination_chain_id)
       /\ InUint256(d_result.amount)
       /\ InUint256(d_result.nonce)


\* C11: a valid ParsedLockEvent (20-byte addresses, integer fields in
\* 0 .. 2^256 - 1) that is encoded into the 5 x 64 layout with its "0x"
\* prefix and decoded comes back equal in all six fields (checked under
\* SpecRoundTrip).
C11_RoundTrip ==
  (d_event # None /\ Decoded) => d_result = d_event

\* The largest amount, a nonce of 0 and a mixed-case address came back.
C11_Witness ==
  /\ d_event # None /\ Decoded /\ d_result = d_event
  /\ d_event.amount = Uint256Max /\ d_event.nonce = NatToPy(0)
  /\ d_event.source_token = WETH /\ d_event.recipient_address = LowAddress
  /\ d_event.block_number = 42


(***************************************************************************)
(* Claims about the start (checked under SpecStartup).                     *)
(***************************************************************************)
\* C12 (as claimed): whenever the state file is absent or corrupt (missing,
\* invalid JSON, or valid JSON without an integer last_processed_block), the
\* construction does not fail and the process starts with the cursor at the
\* configured start block; nothing is polled before the construction.
C12_StartupFallback ==
  /\ (phase \in {"INIT", "FAILED"} /\ disk.kind # "json")
       => (phase = "INIT" /\ last_processed_block = start_block)
  /\ (phase \in {"NEW", "INIT", "FAILED"})
       => (pc = "init" /\ current_block = start_block /\ latest_block = 0)


(***************************************************************************)
(* Claims about the relay (checked under Spec, one process lifetime,       *)
(* unless SpecRestart is named).                                           *)
(***************************************************************************)
\* The poll loop leaves an iteration when it goes to sleep.
IterationEnds == pc # "sleep" /\ pc' = "sleep"

\* C1 (as claimed): the cursor never decreases within a process, and every
\* iteration that found work (from_block <= to_block) ends with the cursor
\* at the head it read minus the confirmation depth.
C1_AsClaimed ==
  [][ /\ last_processed_block' >= last_processed_block
      /\ (IterationEnds /\ latest_block # 0 /\ from_block <= to_block)
           => last_processed_block' = latest_block - confirmation_blocks ]_vars

\* C1 (amended): the cursor never decreases within a process; an iteration
\* that found work and whose log fetch and processing did not fail ends with
\* the cursor at the head it read minus the confirmation depth; an iteration
\* whose log fetch fails ends with the cursor unchanged.
C1_CursorMonotone ==
  [][ /\ last_processed_block' >= last_processed_block
      /\ (IterationEnds /\ pc = "process")
           => /\ from_block <= to_block
              /\ last_processed_block' = latest_block - confirmation_blocks
      /\ (IterationEnds /\ pc = "logs")
           => last_processed_block' = last_processed_block ]_vars

\* An iteration found work and ended with the cursor moved to head - 6.
C1_Witness ==
  /\ pc = "sleep" /\ latest_block # 0 /\ from_block <= to_block
  /\ last_processed_block = latest_block - confirmation_blocks
  /\ last_processed_block > start_block

\* C2 (as claimed): the cursor a process loads at its start is at least every
\* cursor an earlier process wrote to the state file.
C2_NeverRewound ==
  phase = "INIT" => last_processed_block >= maxPersisted

\* C3 (as claimed): when a process starts from the persisted state, every
\* event decoded so far in a block at or below the persisted cursor has been
\* dequeued and sent by the consumer in some run.
C3_NoEventLost ==
  (phase = "INIT" /\ run > 1 /\ disk.kind = "json")
    => \A e \in decoded :
         e.block_number <= disk.last_processed_block => e \in submitted

\* C4: within one process no nonce is put on the queue twice: the accepted
\* events have pairwise distinct nonces, these are exactly the nonces of the
\* registry, and the consumer gets no nonce twice.
NoncesOf(q) == {q[i].nonce : i \in 1..Len(q)}
DistinctNonces(q) ==
  \A i, j \in 1..Len(q) : i # j => q[i].nonce # q[j].nonce

C4_NonceDedup ==
  /\ DistinctNonces(accepted)
  /\ NoncesOf(accepted) = processed_nonces
  /\ DistinctNonces(dequeued \o pending_transactions)

\* Two different events with one nonce were decoded by the process, and the
\* consumer got the one that was accepted.
C4_Witness ==
  /\ \E e1, e2 \in decoded : e1 # e2 /\ e1.nonce = e2.nonce
  /\ Len(accepted) = 1 /\ Len(dequeued) = 1

\* C5 (as claimed): at STOPPED the consumer task has ended, it holds no item,
\* and the state was persisted exactly once since the shutdown signal.
C5_AsClaimed ==
  phase = "STOPPED" =>
    /\ cpc = "done" /\ event_to_process = None
    /\ drainPersists = 1

\* C5 (amended): at STOPPED the consumer task has ended and holds no item,
\* and _save_state was called exactly once since the shutdown signal, after
\* the consumer ended; that call persists the cursor unless its write fails.
\* Nothing is enqueued or dequeued once the shutdown signal is seen.
C5_GracefulDrain ==
  [][ /\ (phase' = "STOPPED") =>
            /\ cpc' = "done" /\ event_to_process' = None
            /\ drainSaveCalls' = 1 /\ drainPersists' <= 1
            /\ (drainPersists' = 1 => disk' = Stored(last_processed_block'))
      /\ (phase' \in {"INIT", "RUNNING", "DRAINING"}) =>
            drainSaveCalls' = 0 /\ drainPersists' = 0
      /\ (phase = "DRAINING") =>
            /\ UNCHANGED << pending_transactions, accepted, dequeued, submitted >>
            /\ (drainSaveCalls' # drainSaveCalls => cpc = "done") ]_vars

\* The shutdown came while the consumer had an item it had not sent yet; the
\* process is stopped and the item was dropped.
C5_Witness ==
  /\ phase = "STOPPED" /\ drainSaveCalls = 1
  /\ dequeued # <<>> /\ dequeued[Len(dequeued)] \notin submitted

\* C6: an iteration that reads a head with cursor + 1 > head - confirmations
\* does not call get_logs and leaves the cursor, the state file, the queue
\* and the registry as they are, up to the next iteration.
C6_NoWorkIdempotent ==
  [][ /\ (pc = "head" /\ latest_block' # 0
            /\ last_processed_block + 1 > latest_block' - confirmation_blocks)
           => /\ pc' = "sleep"
              /\ UNCHANGED << last_processed_block, disk, pending_transactions,
                              processed_nonces, accepted, logs >>
      /\ (pc = "sleep" /\ pc' \in {"sleep", "head"})
           => UNCHANGED << last_processed_block, disk, processed_nonces,
                           accepted >> ]_vars

\* An iteration found no work after the cursor had moved.
C6_Witness ==
  /\ pc = "sleep" /\ latest_block # 0
  /\ from_block = last_processed_block + 1 /\ from_block > to_block
  /\ last_processed_block > start_block

\* C7: the consumer gets the events in the order they were accepted: what it
\* has dequeued, followed by what is on the queue, is what was accepted.
C7_Fifo == dequeued \o pending_transactions = accepted

\* Two events were accepted while none had been dequeued, and both have been
\* dequeued since.
C7_Witness == Len(dequeued) >= 2 /\ pending_transactions = <<>>

\* C8: a chain read that raises leaves the process RUNNING and asleep for one
\* poll interval, with the cursor, the state file, the queue and the registry
\* as they were; until the next head is read the cursor stays where it was,
\* and the next range starts at that cursor + 1.
ReadFailed == pc \in {"head", "logs"} /\ pc' \notin {"head", "logs"} /\ failCursor' # -1

C8_FailedRead ==
  [][ /\ ReadFailed
           => /\ phase' = "RUNNING" /\ pc' = "sleep"
              /\ UNCHANGED << last_processed_block, disk, pending_transactions,
                              processed_nonces, accepted, decoded >>
      /\ (failCursor' # -1)
           => /\ last_processed_block' = failCursor'
              /\ phase' = "RUNNING" /\ pc' \in {"sleep", "head"}
      /\ (pc = "head" /\ failCursor # -1 /\ latest_block' # 0)
           => from_block' = failCursor + 1 ]_vars

\* A chain read failed after the cursor had moved, and the loop has woken up
\* to poll again.
C8_Witness ==
  /\ pc = "head" /\ failCursor # -1 /\ phase = "RUNNING"
  /\ last_processed_block > start_block

\* C13: within one process, the loop writes a cursor to the state file only
\* when every log of the fetched batch has been handled, and what it writes
\* is to_block; so at every moment every event the process decoded has its
\* nonce in the registry, and every decodable log of the batch that is not
\* handled yet is of a block above the persisted cursor.
Unhandled == {ParseInLoop(logs[i]) : i \in 1..Len(logs)} \ {None}

C13_EnqueueBeforePersist ==
  [][ /\ (phase = "RUNNING" /\ disk' # disk /\ disk'.kind = "json")
           => /\ logs = <<>> /\ pc = "process"
              /\ disk'.last_processed_block = to_block
      /\ \A e \in decoded' : e.nonce \in processed_nonces'
      /\ (disk'.kind = "json")
           => \A e \in Unhandled' :
                e.block_number > disk'.last_processed_block ]_vars

\* The cursor is persisted at or above the blocks of two decoded events with
\* one nonce: one was accepted, the other was offered and rejected.
C13_Witness ==
  /\ disk.kind = "json"
  /\ \E e1, e2 \in decoded :
       /\ e1 # e2 /\ e1.nonce = e2.nonce
       /\ e1.block_number <= disk.last_processed_block
       /\ e2.block_number <= disk.last_processed_block
  /\ Len(accepted) = 1

\* C14 (checked under SpecStartup): every range given to get_logs has
\* from = cursor + 1, to = head - confirmations and from <= to, the head being
\* the one read in the same iteration; every log fetched is of a block of
\* that range, which has at least `confirmations` blocks on top of it; and
\* the cursor is the value _load_state returned or is at most the latest head
\* read minus the confirmations.
C14_ConfirmationSafety ==
  /\ (pc \in {"logs", "process"})
       => /\ latest_block = current_block
          /\ from_block = last_processed_block + 1
          /\ to_block = latest_block - confirmation_blocks
          /\ from_block <= to_block
          /\ \A i \in 1..Len(batch) :
               /\ batch[i].blockNumber \in from_block..to_block
               /\ batch[i].blockNumber + confirmation_blocks <= current_block
  /\ (phase \in {"INIT", "RUNNING", "DRAINING", "STOPPED"})
       => \/ last_processed_block = loaded
          \/ last_processed_block <= current_block - confirmation_blocks

\* A batch was fetched for a range after the cursor had moved on from the
\* value that was loaded.
C14_Witness ==
  /\ pc = "process" /\ batch # <<>>
  /\ loaded >= start_block /\ last_processed_block > loaded

\* C15: the decodable logs of a batch are the logs the decoder returns an
\* event for.  While a batch is handled, what has been offered to
\* submit_mint_transaction is the events of the decodable logs handled so
\* far, in batch order, and every log of the batch is of a block above the
\* cursor (no log of a handled range is fetched again); the handling of a
\* batch is left only by the step that moves the cursor to to_block, without
\* a failure, when every decodable log has been offered, whatever malformed
\* logs the batch holds.
EventsOf(b) ==
  SelectSeq([i \in 1..Len(b) |-> ParseInLoop(b[i])], LAMBDA e : e # None)

C15_MalformedDropped ==
  [][ /\ (pc' = "process")
           => /\ offered' = EventsOf(SubSeq(batch', 1, Len(batch') - Len(logs')))
              /\ logs' = SubSeq(batch', Len(batch') - Len(logs') + 1, Len(batch'))
              /\ \A i \in 1..Len(batch') :
                   batch'[i].blockNumber \in (last_processed_block' + 1)..to_block'
      /\ (pc = "process" /\ pc' # "process")
           => /\ phase' = "RUNNING" /\ pc' = "sleep" /\ failCursor' = -1
              /\ logs = <<>> /\ offered = EventsOf(batch)
              /\ last_processed_block' = to_block ]_vars

\* A batch of a log that is too short and a good log has been handled: the
\* good one was offered and accepted.
C15_Witness ==
  /\ pc = "process" /\ logs = <<>> /\ Len(batch) = 2
  /\ batch[1].kind = "short" /\ batch[2].kind = "lock"
  /\ Len(offered) = 1 /\ offered[1].block_number = batch[2].blockNumber
  /\ accepted # <<>> /\ offered[1] = accepted[Len(accepted)]

\* C16: the orchestrator's phase changes only INIT -> RUNNING -> DRAINING ->
\* STOPPED; from the shutdown signal on, the loop is in its finally block or
\* done: no head is read, no batch is fetched, nothing is offered to
\* submit_mint_transaction, the cursor keeps its value; and in STOPPED the
\* consumer task has ended.
PhaseSteps ==
  { << "INIT", "RUNNING" >>, << "RUNNING", "DRAINING" >>, << "DRAINING", "STOPPED" >> }

C16_StateMachine ==
  [][ /\ (phase' # phase) => << phase, phase' >> \in PhaseSteps
      /\ (phase' \in {"DRAINING", "STOPPED"})
           => /\ pc' \in {"finally", "done"}
              /\ logs' = <<>> /\ batch' = <<>>
      /\ (phase \in {"DRAINING", "STOPPED"})
           => UNCHANGED << current_block, latest_block, logs, batch, offered,
                           accepted, processed_nonces, pending_transactions,
                           decoded, last_processed_block, ranges >>
      /\ (phase' = "STOPPED") => (cpc' = "done" /\ pc' = "done") ]_vars

\* The process stopped after its cursor had moved, with an event still on
\* the queue.
C16_Witness ==
  /\ phase = "STOPPED" /\ cpc = "done"
  /\ pending_transactions # <<>>
  /\ last_processed_block > start_block

\* C17: when the handling of a dequeued item raises an Exception, in the
\* submit or in the confirm phase, the consumer goes back to its dequeue: the
\* task does not end, the item is dropped and is not put back on the queue,
\* and the next item is dequeued as any other (a dequeue takes the oldest
\* item whatever happened to the item before).
ItemFailed ==
  /\ phase = "RUNNING" /\ cpc \in {"send", "confirm"}
  /\ event_to_process' = None
  /\ last_done' = [event |-> event_to_process, outcome |-> "failed"]

C17_FailureIsolation ==
  [][ /\ ItemFailed
           => /\ phase' = "RUNNING" /\ cpc' = "get"
              /\ UNCHANGED << pending_transactions, accepted, dequeued,
                              processed_nonces, pc >>
      /\ (cpc = "get" /\ cpc' # "get" /\ phase' = "RUNNING")
           => /\ pending_transactions # <<>>
              /\ cpc' = "send"
              /\ event_to_process' = Head(pending_transactions)
              /\ pending_transactions' = Tail(pending_transactions)
      /\ (last_done' # None /\ last_done'.outcome = "failed")
           => \A i \in 1..Len(pending_transactions') :
                pending_transactions'[i] # last_done'.event ]_vars

\* One item failed in its submit phase and was never sent; the next item was
\* dequeued after it and has been confirmed.
C17_Witness ==
  /\ Len(dequeued) = 2 /\ cpc = "get"
  /\ dequeued[1] \notin submitted
  /\ last_done = [event |-> dequeued[2], outcome |-> "confirmed"]

\* C18: in one process lifetime the ranges that were handled to their end
\* tile the chain from the loaded cursor on: none is empty, the first begins
\* one block after the loaded cursor, each next one begins one block after
\* the one before ended, the last ends at the cursor, and so every block
\* after the loaded cursor up to the cursor is in exactly one of them,
\* whatever failed and no-work iterations came between.
RangesOf(b) == {i \in 1..Len(ranges) : ranges[i][1] <= b /\ b <= ranges[i][2]}

C18_RangesTile ==
  phase \in {"INIT", "RUNNING", "DRAINING", "STOPPED"} =>
    /\ \A i \in 1..Len(ranges) : ranges[i][1] <= ranges[i][2]
    /\ ranges = <<>> => last_processed_block = loaded
    /\ ranges # <<>> => /\ ranges[1][1] = loaded + 1
                        /\ ranges[Len(ranges)][2] = last_processed_block
    /\ \A i \in 1..(Len(ranges) - 1) : ranges[i + 1][1] = ranges[i][2] + 1
    /\ \A b \in (loaded + 1)..last_processed_block : Cardinality(RangesOf(b)) = 1
    /\ \A i \in 1..Len(ranges) :
         \A b \in ranges[i][1]..ranges[i][2] :
           loaded < b /\ b <= last_processed_block

\* Two ranges have been handled, and the iteration after them failed.
C18_Witness ==
  /\ Len(ranges) = 2 /\ ranges[2][1] = ranges[1][2] + 1
  /\ pc = "sleep" /\ failCursor = last_processed_block

\* C19: a cancellation reaches the poll loop in one of its awaits (the head
\* fetch, the log fetch, a sleep).  At that moment the cursor is the end of
\* the last range that was handled to its end (the loaded cursor when there
\* is none), and no event of a block of the range being fetched has been put
\* on the queue; the cursor does not change while the process drains, and
\* the final save, when it writes, writes that cursor.
LastRangeEnd == IF ranges = <<>> THEN loaded ELSE ranges[Len(ranges)][2]

InProgress(e) == from_block <= e.block_number /\ e.block_number <= to_block

C19_ShutdownWholeRanges ==
  [][ /\ (phase = "RUNNING" /\ phase' = "DRAINING")
           => /\ last_processed_block = LastRangeEnd
              /\ last_processed_block' = last_processed_block
              /\ pc \in {"logs", "process"}
                   => /\ \A i \in 1..Len(accepted) : ~InProgress(accepted[i])
                      /\ \A i \in 1..Len(pending_transactions) :
                           ~InProgress(pending_transactions[i])
      /\ phase = "DRAINING"
           => /\ last_processed_block' = last_processed_block
              /\ last_processed_block = LastRangeEnd
              /\ UNCHANGED << ranges, accepted, pending_transactions >>
      /\ (phase = "DRAINING" /\ phase' = "STOPPED"
             /\ drainPersists' = drainPersists + 1)
           => disk' = Stored(LastRangeEnd) ]_vars

\* The loop was cancelled in its log fetch, after a range with an accepted
\* event had been handled; the consumer ended and the final save wrote the
\* cursor.
C19_Witness ==
  /\ phase = "STOPPED" /\ cancelled_at = "logs"
  /\ ranges # <<>> /\ accepted # <<>>
  /\ drainPersists = 1 /\ disk = Stored(ranges[Len(ranges)][2])

\* C20: in a process that is never told to shut down, with fair scheduling
\* of the two tasks and chain reads that do not fail for ever, (a) once the
\* head less the confirmation depth is at or past a block, the cursor
\* eventually is too, and (b) every event accepted into the queue is
\* eventually dequeued and its handling eventually ends: it is confirmed,
\* unless its handling raised an Exception, and then it is abandoned.
RelayEvents ==
  [nonce : Nonces, block_number : (start_block + 1)..(MaxHead - confirmation_blocks)]

\* The event is on the queue or in the consumer's hands.
Waiting(e) ==
  \/ \E i \in 1..Len(pending_transactions) : pending_transactions[i] = e
  \/ event_to_process = e

IsDequeued(e) == \E i \in 1..Len(dequeued) : dequeued[i] = e

CursorCatchesUp ==
  \A b \in (start_block + 1)..(MaxHead - confirmation_blocks) :
    (current_block - confirmation_blocks >= b) ~> (last_processed_block >= b)

C20_Liveness ==
  /\ CursorCatchesUp
  /\ \A e \in RelayEvents :
       Waiting(e) ~> (IsDequeued(e) /\ last_done # None /\ last_done.event = e)

\* (C20 as stated: every accepted event is eventually confirmed)
C20_AsClaimed ==
  /\ CursorCatchesUp
  /\ \A e \in RelayEvents :
       Waiting(e) ~> (IsDequeued(e) /\ last_done = [event |-> e, outcome |-> "confirmed"])

\* The head has moved on and the cursor has caught up with it; two events
\* were accepted and both were dequeued, the first one's handling raised and
\* the second one was confirmed.
C20_Witness ==
  /\ current_block > start_block + confirmation_blocks
  /\ last_processed_block = current_block - confirmation_blocks
  /\ Len(accepted) = 2 /\ dequeued = accepted
  /\ accepted[1] \notin submitted
  /\ last_done = [event |-> accepted[2], outcome |-> "confirmed"]

====
